---- MODULE Spec2Model ----
(***************************************************************************)
(* Model of the event scraping service: the time normalisation of          *)
(* csv_writer.py (EventCSVWriter), the persisted-table writer, the two     *)
(* scrape routes of app.py and the heuristic extractor of scraper.py.      *)
(*                                                                         *)
(* Free text is modelled by its shape: a text value is a record naming     *)
(* the kind of string it is and the pieces the parsers read out of it.     *)
(*   k       kind of string (see the constructors below)                   *)
(*   d       the calendar date written in it (a day number), 0 if none     *)
(*   hr, mn  the clock time written next to the date, as written           *)
(*   ap      the meridiem written next to the clock time, "" if none       *)
(*   doors   the "Doors: <time>" fragment, NoFrag if none                  *)
(*   show    the "Show: <time>" fragment, NoFrag if none                   *)
(* A timestamp (Python datetime) is [k |-> "dt", d, h, m]; Null is the     *)
(* value None and Raised is an exception leaving the function.             *)
(***************************************************************************)
EXTENDS Integers, Sequences, FiniteSets, TLC

VARIABLES events, today, table, outcome, file, before, op, pc, route, page, invoked,
          response, reply, mergers, log

vars ==
    <<events, today, table, outcome, file, before, op, pc, route, page, invoked,
      response, reply, mergers, log>>

(***************************************************************************)
(* Bounds of the model.                                                    *)
(***************************************************************************)
MaxDay == 1
MaxTimeRows == 1
MaxBatch == 2
MaxBlocks == 2
MaxFragHour == 13

\* the calendar dates written in input texts, and the dates the process may
\* run on (possibly later than every written date)
Days == 1..MaxDay
Todays == 1..(MaxDay + 1)

\* F applied to the value of v, with v evaluated once
With(v, F(_)) == CHOOSE r \in {F(x) : x \in {v}} : TRUE

(***************************************************************************)
(* Timestamps.                                                             *)
(***************************************************************************)
Null == [k |-> "null", d |-> 0, h |-> 0, m |-> 0]
Raised == [k |-> "raise", d |-> 0, h |-> 0, m |-> 0]
DT(d, h, m) == [k |-> "dt", d |-> d, h |-> h, m |-> m]

IsDT(x) == x.k = "dt"

\* datetime(year, month, day, hour, minute): ValueError outside the clock range
MkDatetime(d, h, m) ==
    IF h \in 0..23 /\ m \in 0..59 THEN DT(d, h, m) ELSE Raised

\* dt + timedelta(hours = n), n may be negative
AddHours(dt, n) ==
    LET t == dt.h + n
    IN  IF t < 0 THEN DT(dt.d - 1, t + 24, dt.m)
        ELSE IF t >= 24 THEN DT(dt.d + 1, t - 24, dt.m)
        ELSE DT(dt.d, t, dt.m)

\* minutes since the start of day 0, to compare timestamps
Minutes(dt) == (dt.d * 24 + dt.h) * 60 + dt.m

(***************************************************************************)
(* Text values.                                                            *)
(***************************************************************************)
NoFrag == [hh |-> -1, mm |-> -1, ap |-> ""]
Frag(hh, mm, ap) == [hh |-> hh, mm |-> mm, ap |-> ap]

Text(k, d, hr, mn, ap, doors, show) ==
    [k |-> k, d |-> d, hr |-> hr, mn |-> mn, ap |-> ap, doors |-> doors, show |-> show]

TEmpty == Text("empty", 0, 0, 0, "", NoFrag, NoFrag)            \* ''
TNaN == Text("nan", 0, 0, 0, "", NoFrag, NoFrag)                \* NaN / None
TBlank == Text("blank", 0, 0, 0, "", NoFrag, NoFrag)            \* '   '
TGarbage == Text("garbage", 0, 0, 0, "", NoFrag, NoFrag)        \* 'not a date'
\* '11/26/2025 5:30 PM'
TNumDT(d, hr, mn, ap) == Text("numdt", d, hr, mn, ap, NoFrag, NoFrag)
\* '11/26/2025 5:30 PM EST'
TCanon(d, hr, mn, ap) == Text("canon", d, hr, mn, ap, NoFrag, NoFrag)
\* 'November 26, 2025 5:30 pm'
TNameDT(d, hr, mn, ap) == Text("namedt", d, hr, mn, ap, NoFrag, NoFrag)
\* 'November 26, 2025'
TNameDate(d) == Text("namedate", d, 0, 0, "", NoFrag, NoFrag)
\* '11/26/2025'
TNumDate(d) == Text("numdate", d, 0, 0, "", NoFrag, NoFrag)
\* '2025-11-26T20:00:00'
TIso(d, hr, mn) == Text("iso", d, hr, mn, "", NoFrag, NoFrag)
\* '7:00 pm'
TTimeOnly(hr, mn, ap) == Text("timeonly", 0, hr, mn, ap, NoFrag, NoFrag)
\* '<date> Doors: 7:00 pm // Show: 8:00 pm'; style is "name", "num" or "none"
TFrag(style, d, doors, show) ==
    Text(IF style = "name" THEN "fragname"
         ELSE IF style = "num" THEN "fragnum" ELSE "fragnone",
         d, 0, 0, "", doors, show)

(***************************************************************************)
(* EventCSVWriter._parse_datetime                                          *)
(***************************************************************************)
\* %I:%M %p of strptime, and the am/pm arithmetic of lines 106-109
To24(hr, ap) ==
    IF ap \in {"PM", "pm"} /\ hr # 12 THEN hr + 12
    ELSE IF ap \in {"AM", "am"} /\ hr = 12 THEN 0
    ELSE hr

\* the list of strptime formats, first match wins. The '%Z' format takes the
\* suffix EST only on a host whose local zone is named EST; elsewhere the
\* canonical rendering falls through to dateutil, with the same result.
StrptimeFormats(text) ==
    CASE text.k = "numdt" -> DT(text.d, To24(text.hr, text.ap), text.mn)
      [] text.k = "namedt" -> DT(text.d, To24(text.hr, text.ap), text.mn)
      [] text.k = "namedate" -> DT(text.d, 0, 0)
      [] text.k = "numdate" -> DT(text.d, 0, 0)
      [] text.k = "iso" -> DT(text.d, text.hr, text.mn)
      [] OTHER -> Null

\* a parse of the canonical rendering that loses the meridiem
DateutilParseNoMeridiem(text, now) ==
    CASE text.k = "canon" -> DT(text.d, text.hr % 12, text.mn)
      [] text.k = "timeonly" -> DT(now, To24(text.hr, text.ap), text.mn)
      [] OTHER -> Null

\* dateutil.parser.parse: the zone label is dropped, a bare clock time is
\* put on the current date, a string with unknown words is a ValueError
DateutilParse(text, now) ==
    CASE text.k = "canon" -> DT(text.d, To24(text.hr, text.ap), text.mn)
      [] text.k = "timeonly" -> DT(now, To24(text.hr, text.ap), text.mn)
      [] OTHER -> Null

\* re.search of '<Month> <Day>[,] <Year> [<H>:<MM> <am|pm>]' anywhere in the
\* string: in '<Month d, Y> Doors: .. // Show: ..' it finds the date alone
RegexFallback(text) ==
    CASE text.k = "namedt" -> DT(text.d, To24(text.hr, text.ap), text.mn)
      [] text.k = "namedate" -> DT(text.d, 0, 0)
      [] text.k = "fragname" -> DT(text.d, 0, 0)
      [] OTHER -> Null

ParseDatetime(text, now) ==
    IF text.k \in {"empty", "nan", "blank"} THEN Null
    ELSE IF IsDT(StrptimeFormats(text)) THEN StrptimeFormats(text)
    ELSE IF IsDT(DateutilParse(text, now)) THEN DateutilParse(text, now)
    ELSE RegexFallback(text)

(***************************************************************************)
(* EventCSVWriter._format_datetime                                         *)
(***************************************************************************)
\* midnight rendered with the hour 0
FormatDatetimeZeroHour(dt) ==
    IF ~IsDT(dt) THEN TEmpty
    ELSE IF dt.h < 12 THEN TCanon(dt.d, dt.h, dt.m, "AM")
    ELSE IF dt.h = 12 THEN TCanon(dt.d, 12, dt.m, "PM")
    ELSE TCanon(dt.d, dt.h - 12, dt.m, "PM")

FormatDatetime(dt) ==
    IF ~IsDT(dt) THEN TEmpty
    ELSE IF dt.h = 0 THEN TCanon(dt.d, 12, dt.m, "AM")
    ELSE IF dt.h < 12 THEN TCanon(dt.d, dt.h, dt.m, "AM")
    ELSE IF dt.h = 12 THEN TCanon(dt.d, 12, dt.m, "PM")
    ELSE TCanon(dt.d, dt.h - 12, dt.m, "PM")

\* the calendar date of a day number: day 1 is November 26, 2025
DateOf(d) ==
    IF d <= 5 THEN [year |-> 2025, month |-> 11, day |-> 25 + d]
    ELSE IF d <= 36 THEN [year |-> 2025, month |-> 12, day |-> d - 5]
    ELSE [year |-> 2026, month |-> 1, day |-> d - 36]

Digit(n) == <<"0", "1", "2", "3", "4", "5", "6", "7", "8", "9">>[n + 1]

\* '{n:02d}' and '{n}' for n below 100, '{n}' for a four-digit year
Pad2(n) == Digit(n \div 10) \o Digit(n % 10)
Str(n) == IF n < 10 THEN Digit(n) ELSE Pad2(n)
Str4(n) == Pad2(n \div 100) \o Pad2(n % 100)

\* line 152: the characters of a canonical text
Rendered(text) ==
    Pad2(DateOf(text.d).month) \o "/" \o Pad2(DateOf(text.d).day) \o "/"
        \o Str4(DateOf(text.d).year) \o " " \o Str(text.hr) \o ":"
        \o Pad2(text.mn) \o " " \o text.ap \o " EST"

(***************************************************************************)
(* EventCSVWriter._extract_time_from_text                                  *)
(***************************************************************************)
\* a fragment hour with no meridiem taken as written
FragHour24Literal(f) ==
    IF f.ap # ""
    THEN IF f.ap \in {"PM", "pm"} /\ f.hh # 12 THEN f.hh + 12
         ELSE IF f.ap \in {"AM", "am"} /\ f.hh = 12 THEN 0
         ELSE f.hh
    ELSE f.hh

\* hour of a 'Show:' fragment in 24-hour form (lines 204-210 and 226-232)
FragHour24(f) ==
    IF f.ap # ""
    THEN IF f.ap \in {"PM", "pm"} /\ f.hh # 12 THEN f.hh + 12
         ELSE IF f.ap \in {"AM", "am"} /\ f.hh = 12 THEN 0
         ELSE f.hh
    ELSE IF f.hh < 12 THEN f.hh + 12
    ELSE f.hh

FragMinute(f) == IF f.mm = -1 THEN 0 ELSE f.mm

\* date_pattern.search(text).group(1), TEmpty when there is no match
DateMatch(text) ==
    CASE text.k \in {"fragname", "namedt", "namedate"} -> TNameDate(text.d)
      [] text.k \in {"fragnum", "numdt", "numdate", "canon"} -> TNumDate(text.d)
      [] OTHER -> TEmpty

ExtractTimeFromText(text, now) ==
    IF text.k \in {"empty", "nan"} THEN Null
    ELSE IF IsDT(ParseDatetime(text, now)) THEN ParseDatetime(text, now)
    ELSE LET date_dt == ParseDatetime(DateMatch(text), now)
         IN  IF DateMatch(text) # TEmpty /\ IsDT(date_dt) /\ text.show # NoFrag
             THEN MkDatetime(date_dt.d, FragHour24(text.show), FragMinute(text.show))
             ELSE IF text.show # NoFrag
             THEN MkDatetime(now, FragHour24(text.show), FragMinute(text.show))
             ELSE Null

(***************************************************************************)
(* Event records: the columns of EventCSVWriter.COLUMNS the pipeline reads *)
(* or writes, and Description Text standing for the columns it only        *)
(* copies.                                                                 *)
(***************************************************************************)
COLUMNS ==
    {"EventName", "VenuePermalink", "EventStartTime", "EventDoorTime",
     "EventEndTime", "DescriptionText", "EventImageURL", "DescriptionImage"}

TimeColumns == {"EventStartTime", "EventDoorTime", "EventEndTime"}

Event(name, permalink, start, door, end, desc) ==
    [EventName |-> name, VenuePermalink |-> permalink, EventStartTime |-> start,
     EventDoorTime |-> door, EventEndTime |-> end, DescriptionText |-> desc,
     EventImageURL |-> "", DescriptionImage |-> ""]

\* None / NaN in a string column
NoneVal == "<None>"

(***************************************************************************)
(* EventCSVWriter._calculate_times                                         *)
(***************************************************************************)
DoorLeadHours == 1
EventLengthHours == 3

\* lines 262-267: the start timestamp of a row, Raised if extraction raises
StartOf(row, now) ==
    LET start_dt == ExtractTimeFromText(row.EventStartTime, now)
    IN  IF start_dt = Raised THEN Raised
        ELSE IF ~IsDT(start_dt) THEN ParseDatetime(row.EventStartTime, now)
        ELSE start_dt

\* hour and minute of the 'Doors:' fragment (lines 291-301)
DoorHour24(f) ==
    IF f.ap # ""
    THEN IF f.ap \in {"PM", "pm"} /\ f.hh # 12 THEN f.hh + 12
         ELSE IF f.ap \in {"AM", "am"} /\ f.hh = 12 THEN 0
         ELSE f.hh
    ELSE IF f.hh < 12 THEN f.hh + 12
    ELSE f.hh

DoorMinute(f) == IF f.mm = -1 THEN 0 ELSE f.mm

\* the 'Doors:' fragment consulted before the explicit door field
DoorOfFragmentFirst(row, start_dt, now) ==
    LET door_time_str == row.EventDoorTime
        explicit == IF door_time_str.k \in {"empty", "nan", "blank"} THEN Null
                    ELSE ParseDatetime(door_time_str, now)
        doors == row.EventStartTime.doors
    IN  IF doors # NoFrag
        THEN MkDatetime(start_dt.d, DoorHour24(doors), DoorMinute(doors))
        ELSE IF IsDT(explicit) THEN explicit
        ELSE AddHours(start_dt, 0 - DoorLeadHours)

\* lines 271-308: the door timestamp of a row whose start is start_dt
DoorOf(row, start_dt, now) ==
    LET door_time_str == row.EventDoorTime
        explicit == IF door_time_str.k \in {"empty", "nan", "blank"} THEN Null
                    ELSE ParseDatetime(door_time_str, now)
        doors == row.EventStartTime.doors
    IN  IF IsDT(explicit) THEN explicit
        ELSE IF doors # NoFrag
        THEN MkDatetime(start_dt.d, DoorHour24(doors), DoorMinute(doors))
        ELSE AddHours(start_dt, 0 - DoorLeadHours)

\* an end time the record arrives with kept when it parses
EndOfKeepExisting(row, start_dt) ==
    IF IsDT(ParseDatetime(row.EventEndTime, start_dt.d))
    THEN ParseDatetime(row.EventEndTime, start_dt.d)
    ELSE AddHours(start_dt, EventLengthHours)

\* lines 310-311
EndOf(row, start_dt) == AddHours(start_dt, EventLengthHours)

\* lines 314-316: the three time fields overwritten
SetTimes(row, start_dt, door_dt, end_dt) ==
    [row EXCEPT !.EventStartTime = FormatDatetime(start_dt),
                !.EventDoorTime = FormatDatetime(door_dt),
                !.EventEndTime = FormatDatetime(end_dt)]

\* a turn of the loop that blanks the time fields of a row it cannot parse
CalculateRowBlankUnparsed(row, now) ==
    IF row.EventStartTime.k \in {"empty", "nan"} THEN [ok |-> TRUE, row |-> row]
    ELSE With(StartOf(row, now), LAMBDA start_dt :
            IF start_dt = Raised THEN [ok |-> FALSE, row |-> row]
            ELSE IF ~IsDT(start_dt)
            THEN [ok |-> TRUE, row |-> SetTimes(row, Null, Null, Null)]
            ELSE With(DoorOf(row, start_dt, now), LAMBDA door_dt :
                    IF door_dt = Raised THEN [ok |-> FALSE, row |-> row]
                    ELSE [ok |-> TRUE,
                          row |-> SetTimes(row, start_dt, door_dt,
                                           EndOf(row, start_dt))]))

\* one turn of the loop over the rows: the row as the loop leaves it, or
\* ok = FALSE when the turn raises
CalculateRow(row, now) ==
    IF row.EventStartTime.k \in {"empty", "nan"} THEN [ok |-> TRUE, row |-> row]
    ELSE With(StartOf(row, now), LAMBDA start_dt :
            IF start_dt = Raised THEN [ok |-> FALSE, row |-> row]
            ELSE IF ~IsDT(start_dt) THEN [ok |-> TRUE, row |-> row]
            ELSE With(DoorOf(row, start_dt, now), LAMBDA door_dt :
                    IF door_dt = Raised THEN [ok |-> FALSE, row |-> row]
                    ELSE [ok |-> TRUE,
                          row |-> SetTimes(row, start_dt, door_dt,
                                           EndOf(row, start_dt))]))

\* the whole function: a new table, or an exception (ok = FALSE) with no table
CalculateTimes(df, now) ==
    With([i \in 1..Len(df) |-> With(df[i], LAMBDA row : CalculateRow(row, now))],
         LAMBDA done :
            IF \E i \in 1..Len(done) : ~done[i].ok
            THEN [ok |-> FALSE, rows |-> <<>>]
            ELSE [ok |-> TRUE, rows |-> [i \in 1..Len(done) |-> done[i].row]])

(***************************************************************************)
(* The normalisation steps shared by write_events, merge_with_existing and *)
(* the two routes.                                                         *)
(***************************************************************************)
\* {col: event.get(col, '') for col in COLUMNS}
FillEvent(event) ==
    [col \in COLUMNS |->
        IF col \in DOMAIN event THEN event[col]
        ELSE IF col \in TimeColumns THEN TEmpty ELSE ""]

Fill(batch) == [i \in 1..Len(batch) |-> FillEvent(batch[i])]

\* df[df[col].notna() & (df[col] != '')]
NotEmpty(v) == v # NoneVal /\ v # ""

HasPermalink(row) == NotEmpty(row.VenuePermalink)
HasEventName(row) == NotEmpty(row.EventName)

\* drop_duplicates with keep='first'
RECURSIVE DropDuplicatesKeepFirstFrom(_, _)
DropDuplicatesKeepFirstFrom(df, i) ==
    IF i > Len(df) THEN <<>>
    ELSE IF \E j \in 1..(i - 1) : df[j].VenuePermalink = df[i].VenuePermalink
         THEN DropDuplicatesKeepFirstFrom(df, i + 1)
         ELSE <<df[i]>> \o DropDuplicatesKeepFirstFrom(df, i + 1)

DropDuplicatesKeepFirst(df) == DropDuplicatesKeepFirstFrom(df, 1)

\* df.drop_duplicates(subset=['Venue Permalink'], keep='last')
RECURSIVE DropDuplicatesFrom(_, _)
DropDuplicatesFrom(df, i) ==
    IF i > Len(df) THEN <<>>
    ELSE IF \E j \in (i + 1)..Len(df) : df[j].VenuePermalink = df[i].VenuePermalink
         THEN DropDuplicatesFrom(df, i + 1)
         ELSE <<df[i]>> \o DropDuplicatesFrom(df, i + 1)

DropDuplicates(df) == DropDuplicatesFrom(df, 1)

\* df[df[col].notna() & (df[col] != '')] for the permalink column alone
FilterPermalinkOnly(df) == SelectSeq(df, HasPermalink)

\* the two filters applied to a table whose duplicates were dropped first
FilterAfterDedup(df) ==
    SelectSeq(SelectSeq(DropDuplicates(df), HasPermalink), HasEventName)

\* the two filters of csv_writer.py lines 343-344
FilterValid(df) == SelectSeq(SelectSeq(df, HasPermalink), HasEventName)

\* app.py lines 363-380 (scrape_events) and 478-495 (scrape_html)
ScrapeNormalize(batch, now) ==
    CalculateTimes(DropDuplicates(FilterValid(Fill(batch))), now)

(***************************************************************************)
(* The persisted table: pandas to_csv / read_csv.  An empty field is       *)
(* written as an empty field and read back as NaN.                         *)
(***************************************************************************)
AbsentFile == [exists |-> FALSE, rows |-> <<>>]

ToCsvRow(row) ==
    [col \in COLUMNS |->
        IF col \in TimeColumns
        THEN (IF row[col] = TNaN THEN TEmpty ELSE row[col])
        ELSE (IF row[col] = NoneVal THEN "" ELSE row[col])]

ToCsv(df) == [exists |-> TRUE, rows |-> [i \in 1..Len(df) |-> ToCsvRow(df[i])]]

ReadCsvRow(row) ==
    [col \in COLUMNS |->
        IF col \in TimeColumns
        THEN (IF row[col] = TEmpty THEN TNaN ELSE row[col])
        ELSE (IF row[col] = "" THEN NoneVal ELSE row[col])]

ReadCsv(f) == [i \in 1..Len(f.rows) |-> ReadCsvRow(f.rows[i])]

(***************************************************************************)
(* EventCSVWriter.write_events and merge_with_existing, as functions of    *)
(* the batch and the file: the file they leave and how they end.           *)
(***************************************************************************)
Result(f, how) == [file |-> f, outcome |-> how]

\* lines 362-383: the append branch with its except fallback
AppendExisting(df, f, now) ==
    With(CalculateTimes(DropDuplicates(FilterValid(ReadCsv(f)) \o df), now),
         LAMBDA combined_df :
            IF combined_df.ok THEN Result(ToCsv(combined_df.rows), "ok")
            ELSE Result(ToCsv(df), "ok"))

WriteEventsResult(batch, append, f, now) ==
    IF batch = <<>> THEN Result(f, "noop")
    ELSE With(CalculateTimes(DropDuplicates(FilterValid(Fill(batch))), now),
              LAMBDA df :
                 IF ~df.ok THEN Result(f, "raised")
                 ELSE IF append /\ f.exists THEN AppendExisting(df.rows, f, now)
                 ELSE Result(ToCsv(df.rows), "ok"))

\* the batch written over the stored rows
MergeExistingStoredDropped(new_df, f, now) ==
    Result(ToCsv(DropDuplicates(new_df)), "ok")

\* the merged table written without dropping duplicates
MergeExistingNoDedup(new_df, f, now) ==
    With(CalculateTimes(FilterValid(ReadCsv(f)) \o new_df, now),
         LAMBDA merged_df :
            IF merged_df.ok THEN Result(ToCsv(merged_df.rows), "ok")
            ELSE Result(ToCsv(DropDuplicates(new_df)), "ok"))

\* the merged table with the stored rows placed after the new ones
MergeExistingStoredLast(new_df, f, now) ==
    With(CalculateTimes(DropDuplicates(new_df \o FilterValid(ReadCsv(f))), now),
         LAMBDA merged_df :
            IF merged_df.ok THEN Result(ToCsv(merged_df.rows), "ok")
            ELSE Result(ToCsv(DropDuplicates(new_df)), "ok"))

\* lines 411-430: the merge branch with its except fallback
MergeExisting(new_df, f, now) ==
    With(CalculateTimes(DropDuplicates(FilterValid(ReadCsv(f)) \o new_df), now),
         LAMBDA merged_df :
            IF merged_df.ok THEN Result(ToCsv(merged_df.rows), "ok")
            ELSE Result(ToCsv(DropDuplicates(new_df)), "ok"))

\* pd.DataFrame([]) has no columns: selecting 'Venue Permalink' is a KeyError
MergeWithExistingResult(batch, f, now) ==
    IF batch = <<>> THEN Result(f, "raised")
    ELSE With(CalculateTimes(FilterValid(Fill(batch)), now),
              LAMBDA new_df :
                 IF ~new_df.ok THEN Result(f, "raised")
                 ELSE IF f.exists THEN MergeExisting(new_df.rows, f, now)
                 ELSE Result(ToCsv(DropDuplicates(new_df.rows)), "ok"))

(***************************************************************************)
(* app.py: the structured-data stage and the AI oracle.                    *)
(* A block is the body of one <script type="application/ld+json">:         *)
(*   event     a JSON object with "@type": "Event"                         *)
(*   other     a JSON object of another type                               *)
(*   badjson   text that is not JSON                                       *)
(*   notobject JSON whose top level is a list or a scalar                  *)
(*   badloc    an Event whose "location" is not an object                  *)
(*   nobody    a script element with no text (script.string is None)       *)
(***************************************************************************)
Block(kind, name, url, startDate, endDate, description) ==
    [kind |-> kind, name |-> name, url |-> url, startDate |-> startDate,
     endDate |-> endDate, description |-> description, image |-> ""]

\* a block or an oracle item whose image is the given URL
Pictured(x, image) == [x EXCEPT !.image = image]

\* image URLs as a page or the oracle may give them
RelativeImage == "/img/x.jpg"
AbsoluteImage == "https://venue.com/img/x.jpg"

PlainBlock(kind) == Block(kind, "", "", TEmpty, TEmpty, "")

\* lines 318-337: the record of an Event block
StructuredEvent(block) ==
    [Event(block.name, block.url, block.startDate, TEmpty, block.endDate,
           block.description)
        EXCEPT !.EventImageURL = block.image, !.DescriptionImage = block.image]

\* json.loads(None) is a TypeError, which the handler of line 339 lets through
BlockRaises(block) == block.kind = "nobody"

\* lines 313-341: the records of the blocks, in page order
RECURSIVE StructuredEvents(_)
StructuredEvents(blocks) ==
    IF blocks = <<>> THEN <<>>
    ELSE IF Head(blocks).kind = "event"
         THEN <<StructuredEvent(Head(blocks))>> \o StructuredEvents(Tail(blocks))
         ELSE StructuredEvents(Tail(blocks))

ExtractStructured(blocks) ==
    IF \E i \in 1..Len(blocks) : BlockRaises(blocks[i])
    THEN [ok |-> FALSE, events |-> <<>>]
    ELSE [ok |-> TRUE, events |-> StructuredEvents(blocks)]

\* an oracle reply: kind is "nokey" (no API key), "error" (the request
\* failed), "malformed" (text that is not JSON), "baditem" (a JSON list with
\* an entry that is not an object after the items) or "ok"; items are the
\* objects of the JSON list it returned
Reply(kind, items) == [kind |-> kind, items |-> items]
Item(name, permalink, start, description) ==
    [name |-> name, permalink |-> permalink, start |-> start,
     description |-> description, image |-> ""]

\* lines 79-98
OracleEvent(item) ==
    [Event(item.name, item.permalink, item.start, TEmpty, TEmpty, item.description)
        EXCEPT !.EventImageURL = item.image, !.DescriptionImage = item.image]

HasName(event) == event.EventName # "" /\ event.EventName # NoneVal

\* the records mapped so far returned when the reply turns out bad
ExtractEventsWithAIKeepPartial(reply_) ==
    SelectSeq([i \in 1..Len(reply_.items) |-> OracleEvent(reply_.items[i])], HasName)

\* extract_events_with_ai: every failure is caught and returns []
ExtractEventsWithAI(reply_) ==
    IF reply_.kind # "ok" THEN <<>>
    ELSE SelectSeq([i \in 1..Len(reply_.items) |-> OracleEvent(reply_.items[i])], HasName)

(***************************************************************************)
(* Inputs.                                                                 *)
(***************************************************************************)
SeqsUpTo(S, n) == UNION {[1..k -> S] : k \in 0..n}

\* '11/26/2025 5:30 PM', the start time of the specification's example
ExampleStart(d) == TNumDT(d, 5, 30, "PM")

\* batches of scraped events for the writer: valid and invalid records, two
\* permalinks, and records that differ only in their start time
NormEvents ==
    {Event(name, permalink, start, TEmpty, TEmpty, "") :
        name \in {"", "A"}, permalink \in {"", "p1", "p2"},
        start \in {TEmpty, ExampleStart(1)}}
    \cup {[EventName |-> "A", EventStartTime |-> ExampleStart(1)]}

NormBatches == SeqsUpTo(NormEvents, MaxBatch)

\* start-time texts: every kind of string, with and without fragments
DoorFrags == {NoFrag, Frag(7, 0, "pm"), Frag(25, -1, "")}
ShowFrags == {NoFrag, Frag(8, 0, "pm"), Frag(9, 75, "pm")}

StartTexts ==
    {TEmpty, TNaN, TBlank, TGarbage, TTimeOnly(7, 0, "pm")}
    \cup {t \in {TFrag("none", 0, doors, show) : doors \in DoorFrags, show \in ShowFrags} :
            t.doors # NoFrag \/ t.show # NoFrag}
    \cup {TFrag(style, d, doors, show) :
            style \in {"name", "num"}, d \in Days, doors \in DoorFrags, show \in ShowFrags}
    \cup UNION {{ExampleStart(d), TNumDT(d, 12, 30, "AM"), TNameDT(d, 10, 30, "pm"),
                 TNameDate(d), TNumDate(d), TIso(d, 20, 0)} : d \in Days}

\* the door and end fields a record arrives with
DoorEndTexts ==
    {<<TEmpty, TEmpty>>, <<TNumDT(1, 6, 15, "PM"), TIso(1, 22, 0)>>, <<TGarbage, TEmpty>>}

TimeEvents ==
    {Event("A", "p1", start, de[1], de[2], "text") : start \in StartTexts, de \in DoorEndTexts}

TimeBatches == SeqsUpTo(TimeEvents, MaxTimeRows) \ {<<>>}

\* time fragments over the hours of a clock face and beyond, with and without
\* minute and meridiem
ClockFrags ==
    {Frag(hh, mm, ap) : hh \in 0..MaxFragHour, mm \in {-1, 30}, ap \in {"", "am", "PM"}}

\* dates rendered with and without padding: 11/26/2025 and 01/05/2026
ClockDays == {1, 41}

\* minutes of the hour rendered with and without padding
ClockMinutes == {0, 5, 59}

\* start texts for the clock arithmetic: fragments next to a numeric date, and
\* every hour of the day in ISO form
ClockTexts ==
    {TFrag("num", 1, doors, Frag(8, 0, "pm")) : doors \in ClockFrags}
    \cup {TFrag("num", 1, NoFrag, show) : show \in ClockFrags}
    \cup {TIso(d, h, m) : d \in ClockDays, h \in 0..23, m \in ClockMinutes}

ClockBatches == {<<Event("A", "p1", start, TEmpty, TEmpty, "text")>> : start \in ClockTexts}

\* pages: the ld+json blocks of a document, in order
Blocks ==
    {Block("event", name, url, startDate, TEmpty, "ld") :
        name \in {"", "A"}, url \in {"", "p1", "p2"},
        startDate \in {TEmpty, TIso(1, 20, 0)}}
    \cup {Block("event", "A", "p1", TIso(1, 20, 0), TIso(1, 22, 0), "ld")}
    \cup {Block("event", "A", "p1", TFrag("num", 1, NoFrag, Frag(9, 75, "pm")), TEmpty, "ld")}
    \cup {Pictured(Block("event", "A", "p1", TIso(1, 20, 0), TEmpty, "ld"), image) :
            image \in {RelativeImage, AbsoluteImage}}
    \cup {PlainBlock(kind) : kind \in {"other", "badjson", "notobject", "badloc", "nobody"}}

Pages == SeqsUpTo(Blocks, MaxBlocks)

Items ==
    {Item(name, permalink, ExampleStart(1), "ai") :
        name \in {"", "B"}, permalink \in {"", "p1"}}
    \cup {Pictured(Item("B", "p1", ExampleStart(1), "ai"), image) :
            image \in {RelativeImage, AbsoluteImage}}

Replies ==
    {Reply(kind, <<>>) : kind \in {"nokey", "error", "malformed"}}
    \cup {Reply(kind, items) : kind \in {"ok", "baditem"}, items \in SeqsUpTo(Items, MaxBatch)}

(***************************************************************************)
(* The routes /scrape (scrape_events) and /scrape-html (scrape_html), in   *)
(* the steps between their blocking calls.                                 *)
(***************************************************************************)
NoReply == Reply("none", <<>>)
NoResponse == [status |-> 0, error |-> "", rows |-> <<>>]
Failure(status, error) == [status |-> status, error |-> error, rows |-> <<>>]
Success(rows) == [status |-> 200, error |-> "", rows |-> rows]

\* the oracle consulted whatever the structured stage found
AlwaysOracle(found) == TRUE

\* line 344 / 459: 'if not events' before the oracle call
NeedsOracle(found) == found = <<>>

\* lines 285-304 and 408-420: read the request and acquire the document
Acquire ==
    /\ pc = "start"
    /\ \/ /\ response' = Failure(400, "no input")
          /\ pc' = "done"
          /\ page' = page
       \/ /\ route = "scrape"
          /\ response' = Failure(500, "Could not fetch the page")
          /\ pc' = "done"
          /\ page' = page
       \/ /\ \E p \in Pages : page' = p
          /\ pc' = "fetched"
          /\ response' = response
    /\ UNCHANGED <<reply, mergers, log, events, today, table, outcome, file,
                   before, op, route, invoked>>

\* lines 306-341 and 422-456: the structured-data stage
StructuredStage ==
    /\ pc = "fetched"
    /\ invoked' = Append(invoked, "structured")
    /\ \E found \in {ExtractStructured(page)} :
           IF ~found.ok
           THEN /\ response' = Failure(500, "exception")
                /\ pc' = "done"
                /\ events' = events
           ELSE /\ events' = found.events
                /\ pc' = IF NeedsOracle(found.events) THEN "oracle" ELSE "extracted"
                /\ response' = response
    /\ UNCHANGED <<reply, mergers, log, today, table, outcome, file, before, op,
                   route, page>>

\* lines 344-349 and 459-464: the oracle call and the empty-result reply
OracleStage ==
    /\ pc = "oracle"
    /\ invoked' = Append(invoked, "oracle")
    /\ \E answer \in Replies : \E found \in {ExtractEventsWithAI(answer)} :
          /\ reply' = answer
          /\ events' = found
          /\ IF found = <<>>
             THEN /\ response' = Failure(404, "No events found")
                  /\ pc' = "done"
             ELSE /\ response' = response
                  /\ pc' = "extracted"
    /\ UNCHANGED <<mergers, log, today, table, outcome, file, before, op, route,
                   page>>

\* a response that carries the rows prepared before a stage failed
RespondPartial ==
    /\ pc = "extracted"
    /\ events # <<>>
    /\ \E df \in {ScrapeNormalize(events, today)} :
           IF df.ok
           THEN /\ response' = Success(ToCsv(df.rows).rows)
                /\ table' = ToCsv(df.rows).rows
                /\ outcome' = "ok"
           ELSE /\ response' = [status |-> 500, error |-> "exception",
                                rows |-> ToCsv(DropDuplicates(FilterValid(Fill(events)))).rows]
                /\ table' = <<>>
                /\ outcome' = "raised"
    /\ op' = "scrape"
    /\ pc' = "done"
    /\ UNCHANGED <<reply, mergers, log, events, today, file, before, route,
                   page, invoked>>

\* lines 351-403 and 466-518: normalise the records and send the CSV
Respond ==
    /\ pc = "extracted"
    /\ events # <<>>
    /\ \E df \in {ScrapeNormalize(events, today)} :
           IF df.ok
           THEN /\ response' = Success(ToCsv(df.rows).rows)
                /\ table' = ToCsv(df.rows).rows
                /\ outcome' = "ok"
           ELSE /\ response' = Failure(500, "exception")
                /\ table' = <<>>
                /\ outcome' = "raised"
    /\ op' = "scrape"
    /\ pc' = "done"
    /\ UNCHANGED <<reply, mergers, log, events, today, file, before, route,
                   page, invoked>>

(***************************************************************************)
(* Calls of the writer with a batch of extracted events.                   *)
(***************************************************************************)
Written(result) == IF result.outcome = "ok" THEN result.file.rows ELSE <<>>

WriteEvents ==
    /\ pc = "extracted"
    /\ \E append \in BOOLEAN :
          \E result \in {WriteEventsResult(events, append, file, today)} :
              /\ file' = result.file
              /\ outcome' = result.outcome
              /\ table' = Written(result)
              /\ op' = IF append THEN "append" ELSE "write"
    /\ before' = file
    /\ pc' = "done"
    /\ UNCHANGED <<reply, mergers, log, events, today, route, page, invoked,
                   response>>

MergeWithExisting ==
    /\ pc = "extracted"
    /\ \E result \in {MergeWithExistingResult(events, file, today)} :
          /\ file' = result.file
          /\ outcome' = result.outcome
          /\ table' = Written(result)
    /\ op' = "merge"
    /\ before' = file
    /\ pc' = "done"
    /\ UNCHANGED <<reply, mergers, log, events, today, route, page, invoked,
                   response>>

\* _calculate_times called on a filled table
CalculateTimesOnly ==
    /\ pc = "extracted"
    /\ \E df \in {CalculateTimes(Fill(events), today)} :
          /\ table' = df.rows
          /\ outcome' = IF df.ok THEN "ok" ELSE "raised"
    /\ op' = "calculate"
    /\ pc' = "done"
    /\ UNCHANGED <<reply, mergers, log, events, today, file, before, route,
                   page, invoked, response>>

\* the writer's caller is done with the batch
Return ==
    /\ pc = "done"
    /\ op \in {"write", "append", "merge"}
    /\ pc' = "idle"
    /\ events' = <<>>
    /\ op' = "none"
    /\ outcome' = "none"
    /\ table' = <<>>
    /\ before' = file
    /\ UNCHANGED <<reply, mergers, log, today, file, route, page, invoked,
                   response>>

\* the next batch of extracted events reaches the writer
NewBatch ==
    /\ pc = "idle"
    /\ \E batch \in NormBatches : events' = batch
    /\ pc' = "extracted"
    /\ UNCHANGED <<reply, mergers, log, today, table, outcome, file, before, op,
                   route, page, invoked, response>>

(***************************************************************************)
(* Two callers of merge_with_existing on the same file.  A call reads the  *)
(* file (pd.read_csv) and later writes it whole (to_csv); nothing holds    *)
(* the file between the two.                                               *)
(***************************************************************************)
Writers == {1, 2}

\* a caller: where it stands ("idle", "called", "read", "done"), its batch,
\* and the file as it read it
Merger(at, batch, existing) == [at |-> at, batch |-> batch, existing |-> existing]

\* the batches of the two callers and the table they find
RaceEvents ==
    {Event(name, permalink, ExampleStart(1), TEmpty, TEmpty, "") :
        name \in {"A", "B"}, permalink \in {"p1", "p2"}}

StoredTables ==
    {AbsentFile,
     WriteEventsResult(<<Event("A", "p3", ExampleStart(1), TEmpty, TEmpty, "")>>,
                       FALSE, AbsentFile, 1).file}

\* lines 411-413: the caller finds the file and reads it
MergeRead(w) ==
    /\ mergers[w].at = "called"
    /\ mergers' = [mergers EXCEPT ![w] = Merger("read", @.batch, file)]
    /\ log' = Append(log, <<"read", w>>)
    /\ UNCHANGED <<events, today, table, outcome, file, before, op, pc, route,
                   page, invoked, response, reply>>

\* lines 415-434: the caller merges its batch into what it read and writes
\* the file whole
MergeWrite(w) ==
    /\ mergers[w].at = "read"
    /\ \E result \in {MergeWithExistingResult(mergers[w].batch, mergers[w].existing,
                                               today)} :
          file' = result.file
    /\ mergers' = [mergers EXCEPT ![w] = Merger("done", @.batch, @.existing)]
    /\ log' = Append(log, <<"write", w>>)
    /\ UNCHANGED <<events, today, table, outcome, before, op, pc, route, page,
                   invoked, response, reply>>

(***************************************************************************)
(* The heuristic extractor of scraper.py (GenericScraper).  Its texts are  *)
(* strings, read a character at a time.  An element is                     *)
(* [tag, text, href], href being NoneVal when the attribute is absent.  A  *)
(* container is [tag, class, names, links]: names holds, in the order of   *)
(* name_selectors, the text of the first element each selector finds       *)
(* (selectors that find nothing are left out), links holds the container's *)
(* anchors and buttons in document order.  The date, image and description *)
(* columns of the record are not modelled.                                 *)
(***************************************************************************)
MaxContainers == 2

Char(s, i) == SubSeq(s, i, i)

\* str.strip()
RECURSIVE LStrip(_)
LStrip(s) == IF Len(s) > 0 /\ Char(s, 1) = " " THEN LStrip(SubSeq(s, 2, Len(s))) ELSE s

RECURSIVE RStrip(_)
RStrip(s) ==
    IF Len(s) > 0 /\ Char(s, Len(s)) = " " THEN RStrip(SubSeq(s, 1, Len(s) - 1)) ELSE s

Strip(s) == RStrip(LStrip(s))

\* str.lower()
UpperCase == "ABCDEFGHIJKLMNOPQRSTUVWXYZ"
LowerCase == "abcdefghijklmnopqrstuvwxyz"

LowerChar(c) ==
    IF \E i \in 1..Len(UpperCase) : Char(UpperCase, i) = c
    THEN Char(LowerCase, CHOOSE i \in 1..Len(UpperCase) : Char(UpperCase, i) = c)
    ELSE c

RECURSIVE Lower(_)
Lower(s) == IF s = "" THEN "" ELSE LowerChar(Char(s, 1)) \o Lower(SubSeq(s, 2, Len(s)))

\* t in s
Contains(s, t) == \E i \in 1..(Len(s) - Len(t) + 1) : SubSeq(s, i, i + Len(t) - 1) = t

StartsWith(s, p) == Len(s) >= Len(p) /\ SubSeq(s, 1, Len(p)) = p

\* Tag.get_text(strip=True) of an element holding one string
GetText(text) == Strip(text)

\* urllib.parse.urljoin for a base with scheme and host and a reference that
\* is absolute, rooted or relative to the base's directory
Origin(url) ==
    With(CHOOSE i \in 1..Len(url) : SubSeq(url, i, i + 2) = "://",
         LAMBDA s : IF \E j \in (s + 3)..Len(url) : Char(url, j) = "/"
                    THEN SubSeq(url, 1,
                                (CHOOSE j \in (s + 3)..Len(url) :
                                    /\ Char(url, j) = "/"
                                    /\ \A k \in (s + 3)..(j - 1) : Char(url, k) # "/") - 1)
                    ELSE url)

Directory(url) ==
    IF Origin(url) = url
    THEN url \o "/"
    ELSE SubSeq(url, 1, CHOOSE j \in 1..Len(url) :
                            /\ Char(url, j) = "/"
                            /\ \A k \in (j + 1)..Len(url) : Char(url, k) # "/")

UrlJoin(base, href) ==
    IF StartsWith(href, "http://") \/ StartsWith(href, "https://")
    THEN href
    ELSE IF StartsWith(href, "/")
         THEN Origin(base) \o href
         ELSE Directory(base) \o href

\* self.venue_name, self.venue_url
VenueName == "The Venue"
VenueUrl == "https://venue.com/shows/list"

Element(tag, text, href) == [tag |-> tag, text |-> text, href |-> href]
Container(tag, class, names, links) ==
    [tag |-> tag, class |-> class, names |-> names, links |-> links]

\* lines 152-161: the class patterns of an event container (the itemtype and
\* data-event selectors find nothing: the model's containers carry neither)
ContainerSelectors == <<"event", "show", "concert", "listing", "post", "card">>
ContainerTags == {"article", "div", "li", "section"}

Indices(pg) == [i \in 1..Len(pg) |-> i]

\* line 165: soup.find_all(['article', 'div', 'li', 'section'], selector)
Found(pg, selector) ==
    SelectSeq(Indices(pg),
              LAMBDA i : /\ pg[i].tag \in ContainerTags
                         /\ Contains(Lower(pg[i].class), selector))

\* lines 163-166
RECURSIVE FoundBySelectors(_, _)
FoundBySelectors(pg, selectors) ==
    IF selectors = <<>>
    THEN <<>>
    ELSE Found(pg, Head(selectors)) \o FoundBySelectors(pg, Tail(selectors))

\* line 169: an anchor whose string matches buy\s+tickets?|get\s+tickets?
IsBuyTicketLink(e) ==
    /\ e.tag = "a"
    /\ \/ Contains(Lower(e.text), "buy ticket")
       \/ Contains(Lower(e.text), "get ticket")

\* lines 170-184: the containers of the buy-ticket links that look like event
\* containers and are not yet among the found ones
BuyTicketParents(pg, found) ==
    SelectSeq(Indices(pg),
              LAMBDA i : /\ \E k \in 1..Len(pg[i].links) : IsBuyTicketLink(pg[i].links[k])
                         /\ pg[i].tag \in ContainerTags
                         /\ \E s \in 1..Len(ContainerSelectors) :
                               Contains(Lower(pg[i].class), ContainerSelectors[s])
                         /\ \A k \in 1..Len(found) : pg[found[k]] # pg[i])

EventElements(pg) ==
    With(FoundBySelectors(pg, ContainerSelectors),
         LAMBDA found : found \o BuyTicketParents(pg, found))

\* lines 186-193: the found elements, each once, in the order found
RECURSIVE UniqueElements(_, _)
UniqueElements(elems, seen) ==
    IF elems = <<>>
    THEN <<>>
    ELSE IF Head(elems) \in seen
         THEN UniqueElements(Tail(elems), seen)
         ELSE <<Head(elems)>> \o UniqueElements(Tail(elems), seen \cup {Head(elems)})

\* lines 238-239
InvalidNames ==
    {"buy tickets", "get tickets", "buy", "tickets", "rsvp", "more info",
     "learn more", "read more", "view details", "details", "sold out"}

MinNameLength == 3

\* a name check that compares the text as written
AcceptableAsWritten(name) ==
    name # "" /\ Len(name) > MinNameLength /\ name \notin InvalidNames

\* line 246
Acceptable(name) ==
    name # "" /\ Len(name) > MinNameLength /\ Lower(name) \notin InvalidNames

\* lines 241-249: the first candidate, in selector order, that is acceptable
RECURSIVE FirstName(_)
FirstName(names) ==
    IF names = <<>>
    THEN ""
    ELSE IF Acceptable(GetText(Head(names)))
         THEN GetText(Head(names))
         ELSE FirstName(Tail(names))

\* line 251
ButtonTexts == {"get tickets", "buy tickets", "buy", "sold out"}

\* lines 256-257
IsButtonText(text) == \E b \in ButtonTexts : Contains(Lower(GetText(text)), b)

FindAll(links, tag) == SelectSeq(links, LAMBDA e : e.tag = tag)

\* a link search that stops at the first element with a button text
PermalinkOfFirstMatch(btns) ==
    With(SelectSeq(btns, LAMBDA e : IsButtonText(e.text)),
         LAMBDA matching : IF matching # <<>> /\ NotEmpty(Head(matching).href)
                           THEN UrlJoin(VenueUrl, Head(matching).href)
                           ELSE "")

\* lines 255-261: the first element with a button text and an href
RECURSIVE PermalinkOf(_)
PermalinkOf(btns) ==
    IF btns = <<>>
    THEN ""
    ELSE IF IsButtonText(Head(btns).text) /\ NotEmpty(Head(btns).href)
         THEN UrlJoin(VenueUrl, Head(btns).href)
         ELSE PermalinkOf(Tail(btns))

\* lines 252-265: the anchors are searched before the buttons
VenuePermalink(element) ==
    IF PermalinkOf(FindAll(element.links, "a")) # ""
    THEN PermalinkOf(FindAll(element.links, "a"))
    ELSE PermalinkOf(FindAll(element.links, "button"))

\* lines 204-223, 247-248, 264-265
HeuristicEvent(name, permalink) ==
    [HoldLevel |-> "1", Artist |-> name, Type |-> "Confirm", Venue |-> VenueName,
     EventName |-> name, VenuePermalink |-> permalink]

\* lines 202-370: the record of a container in a sequence of its own, the
\* empty sequence standing for None when the container has no name
ParseEventElementEnhanced(element) ==
    With(FirstName(element.names),
         LAMBDA name : IF name = ""
                       THEN <<>>
                       ELSE <<HeuristicEvent(name, VenuePermalink(element))>>)

\* lines 195-198: the containers that give a record
Parsed(pg) ==
    SelectSeq(UniqueElements(EventElements(pg), {}),
              LAMBDA i : /\ ParseEventElementEnhanced(pg[i]) # <<>>
                         /\ Head(ParseEventElementEnhanced(pg[i])).EventName # "")

\* lines 147-200
ExtractEvents(pg) ==
    [i \in 1..Len(Parsed(pg)) |-> Head(ParseEventElementEnhanced(pg[Parsed(pg)[i]]))]

\* the containers of the fetched pages
NoLinks == <<>>
Containers ==
    {Container("div", "event-card", <<" Great Band ">>,
               <<Element("a", "Get Tickets", "/t/1")>>),
     Container("li", "Show", <<"BUY TICKETS", "Jazz Night">>,
               <<Element("a", "Sold Out", NoneVal),
                 Element("a", "Buy Tickets", "https://tix.com/2")>>),
     Container("article", "post", <<"Trio">>,
               <<Element("a", "Buy", "t/3")>>),
     Container("div", "card", <<"Sold Out", " Details ">>,
               <<Element("a", "Get tickets now", "/t/4")>>),
     Container("section", "listing", <<"Open Mic">>,
               <<Element("button", " Buy Tickets ", "/t/5"),
                 Element("a", "More Info", "/info"),
                 Element("a", "BUYER'S GUIDE", "/t/6")>>),
     Container("div", "concert", <<"Quartet">>,
               <<Element("a", "More Info", "/info"),
                 Element("button", "Buy Tickets", NoneVal)>>),
     Container("div", "event", <<"details", "Late Show">>, NoLinks),
     Container("div", "event", <<>>,
               <<Element("a", "Buy Tickets", "/t/8")>>),
     Container("div", "nav", <<"Upcoming Shows">>,
               <<Element("a", "Buy Tickets", "/t/9")>>),
     Container("span", "event", <<"Headliner">>, NoLinks),
     Container("div", "event", <<"Choir">>,
               <<Element("a", "Sold Out", ""),
                 Element("button", "Buy", "/t/11")>>)}

ContainerPages == SeqsUpTo(Containers, MaxContainers)

\* GenericScraper.extract_events on a fetched page; log names the container
\* each record was parsed from
GenericExtractEvents ==
    /\ pc = "fetched"
    /\ events' = ExtractEvents(page)
    /\ log' = Parsed(page)
    /\ op' = "heuristic"
    /\ pc' = "extracted"
    /\ UNCHANGED <<today, table, outcome, file, before, route, page, invoked,
                   response, reply, mergers>>

(***************************************************************************)
(* Specifications.                                                         *)
(***************************************************************************)
InitCommon ==
    /\ table = <<>>
    /\ outcome = "none"
    /\ file = AbsentFile
    /\ before = AbsentFile
    /\ op = "none"
    /\ page = <<>>
    /\ invoked = <<>>
    /\ response = NoResponse
    /\ reply = NoReply
    /\ mergers = [w \in Writers |-> Merger("idle", <<>>, AbsentFile)]
    /\ log = <<>>

\* the writer and the normalisation of a batch
Init ==
    /\ InitCommon
    /\ events = <<>>
    /\ today = 1
    /\ pc = "idle"
    /\ route = "none"

Next == NewBatch \/ Respond \/ WriteEvents \/ MergeWithExisting \/ Return

Spec == Init /\ [][Next]_vars

\* time derivation over every kind of time text
InitTimes ==
    /\ InitCommon
    /\ events \in TimeBatches
    /\ today \in Todays
    /\ pc = "extracted"
    /\ route = "none"

NextTimes == Respond \/ CalculateTimesOnly

SpecTimes == InitTimes /\ [][NextTimes]_vars

\* time derivation over the hours of the clock
InitClock ==
    /\ InitCommon
    /\ events \in ClockBatches
    /\ today = 1
    /\ pc = "extracted"
    /\ route = "none"

NextClock == Respond \/ CalculateTimesOnly

SpecClock == InitClock /\ [][NextClock]_vars

\* two callers of merge_with_existing on one file
InitRace ==
    /\ events = <<>>
    /\ today = 1
    /\ table = <<>>
    /\ outcome = "none"
    /\ file \in StoredTables
    /\ before = file
    /\ op = "none"
    /\ pc = "idle"
    /\ route = "none"
    /\ page = <<>>
    /\ invoked = <<>>
    /\ response = NoResponse
    /\ reply = NoReply
    /\ mergers \in [Writers -> {Merger("called", <<e>>, AbsentFile) : e \in RaceEvents}]
    /\ log = <<>>

NextRace == \E w \in Writers : MergeRead(w) \/ MergeWrite(w)

SpecRace == InitRace /\ [][NextRace]_vars

\* one request through a route
InitReq ==
    /\ InitCommon
    /\ events = <<>>
    /\ today = 1
    /\ pc = "start"
    /\ route \in {"scrape", "scrape-html"}

NextReq == Acquire \/ StructuredStage \/ OracleStage \/ Respond

SpecReq == InitReq /\ [][NextReq]_vars

\* the heuristic extractor over a fetched page
InitHeuristic ==
    /\ events = <<>>
    /\ today = 1
    /\ table = <<>>
    /\ outcome = "none"
    /\ file = AbsentFile
    /\ before = AbsentFile
    /\ op = "none"
    /\ pc = "fetched"
    /\ route = "none"
    /\ page \in ContainerPages
    /\ invoked = <<>>
    /\ response = NoResponse
    /\ reply = NoReply
    /\ mergers = [w \in Writers |-> Merger("idle", <<>>, AbsentFile)]
    /\ log = <<>>

NextHeuristic == GenericExtractEvents

SpecHeuristic == InitHeuristic /\ [][NextHeuristic]_vars

\* the writer called on an output file that was there before the process
\* started: a table the writer left, or one holding a record whose start
\* text ('11/26/2025 Show: 9:75pm') the time derivation raises on
FoundTables ==
    {ToCsv(Fill(<<Event("A", "p3", start, TEmpty, TEmpty, "")>>)) :
        start \in {ExampleStart(1), TFrag("num", 1, NoFrag, Frag(9, 75, "pm"))}}

InitStored ==
    /\ events = <<>>
    /\ today = 1
    /\ table = <<>>
    /\ outcome = "none"
    /\ file \in FoundTables
    /\ before = file
    /\ op = "none"
    /\ pc = "idle"
    /\ route = "none"
    /\ page = <<>>
    /\ invoked = <<>>
    /\ response = NoResponse
    /\ reply = NoReply
    /\ mergers = [w \in Writers |-> Merger("idle", <<>>, AbsentFile)]
    /\ log = <<>>

NextStored == NewBatch \/ WriteEvents \/ MergeWithExisting \/ Return

SpecStored == InitStored /\ [][NextStored]_vars

(***************************************************************************)
(* Properties.                                                             *)
(***************************************************************************)
Range(seq) == {seq[i] : i \in 1..Len(seq)}

\* an operation that normalises a batch has completed and produced a table
Normalised == pc = "done" /\ op \in {"scrape", "write", "append", "merge"} /\ outcome = "ok"

\* the records the operation read, in input order: the stored rows first when
\* it merged into an existing file, then the batch
InputRows ==
    IF op \in {"append", "merge"} /\ before.exists
    THEN ReadCsv(before) \o Fill(events)
    ELSE Fill(events)

ValidRow(row) ==
    /\ row.VenuePermalink \notin {"", NoneVal}
    /\ row.EventName \notin {"", NoneVal}

\* the position of the last valid record of the input with this permalink
LastValid(rows, permalink) ==
    CHOOSE i \in 1..Len(rows) :
        /\ ValidRow(rows[i])
        /\ rows[i].VenuePermalink = permalink
        /\ \A j \in (i + 1)..Len(rows) :
              ~(ValidRow(rows[j]) /\ rows[j].VenuePermalink = permalink)

\* a record as it is written: its times derived, empty fields written empty
AsWritten(row) == ToCsvRow(CalculateRow(row, today).row)

\* C1: the normalised output of write_events, merge_with_existing and the
\* routes holds one row per permalink, namely the last valid input record
\* with that permalink, and the rows stand in the order of those last
\* occurrences.
C1_KeepLast ==
    Normalised =>
        /\ \A k, l \in 1..Len(table) :
              k # l => table[k].VenuePermalink # table[l].VenuePermalink
        /\ \A i \in 1..Len(InputRows) :
              ValidRow(InputRows[i]) =>
                 \E k \in 1..Len(table) :
                    table[k].VenuePermalink = InputRows[i].VenuePermalink
        /\ \A k \in 1..Len(table) :
              /\ \E i \in 1..Len(InputRows) :
                    ValidRow(InputRows[i])
                    /\ InputRows[i].VenuePermalink = table[k].VenuePermalink
              /\ table[k] =
                    AsWritten(InputRows[LastValid(InputRows, table[k].VenuePermalink)])
        /\ \A k, l \in 1..Len(table) :
              k < l => LastValid(InputRows, table[k].VenuePermalink)
                          < LastValid(InputRows, table[l].VenuePermalink)

\* a merge in which a stored row and two records of the batch share a
\* permalink and differ, and the table holds the last of them
C1_Witness ==
    /\ Normalised
    /\ op = "merge"
    /\ \E i, j \in 1..Len(InputRows) :
          /\ i < j
          /\ ValidRow(InputRows[i]) /\ ValidRow(InputRows[j])
          /\ InputRows[i].VenuePermalink = InputRows[j].VenuePermalink
          /\ AsWritten(InputRows[i]) # AsWritten(InputRows[j])
          /\ AsWritten(InputRows[j]) \in Range(table)
    /\ Len(table) = 2

\* C2: no row of a normalised output, of a response or of the persisted table
\* has an empty permalink or an empty event name.
C2_FilterCorrect ==
    \A row \in Range(table) \cup Range(response.rows) \cup Range(file.rows) :
        ValidRow(row)

\* a route has normalised a batch that holds a valid record next to a record
\* that has a permalink and a start time but no name, and kept only the former
C2_Witness ==
    /\ Normalised
    /\ op = "scrape"
    /\ \E e \in Range(Fill(events)) :
          e.EventName = "" /\ e.VenuePermalink # "" /\ e.EventStartTime # TEmpty
    /\ Len(response.rows) = 1
    /\ response.rows = table

\* the time derivation has run over a table and returned one
Derived == pc = "done" /\ op \in {"scrape", "calculate"} /\ outcome = "ok"

\* the table the derivation step was given
DerivationInput ==
    IF op = "calculate" THEN Fill(events)
    ELSE DropDuplicates(FilterValid(Fill(events)))

\* the timestamp a canonical 'MM/DD/YYYY hh:mm AM|PM EST' string denotes
Denotes(text) ==
    IF text.k # "canon" THEN Null
    ELSE IF text.ap = "PM" /\ text.hr # 12 THEN DT(text.d, text.hr + 12, text.mn)
    ELSE IF text.ap = "AM" /\ text.hr = 12 THEN DT(text.d, 0, text.mn)
    ELSE DT(text.d, text.hr, text.mn)

\* C3: the fill, filter, dedup and derive pipeline applied to its own output,
\* on whatever day, returns the same table: same rows, same order, same
\* start, door and end strings.
C3_Idempotent ==
    (pc = "done" /\ op = "scrape" /\ outcome = "ok") =>
        \A now \in Todays :
            /\ ScrapeNormalize(table, now).ok
            /\ ToCsv(ScrapeNormalize(table, now).rows).rows = table
            /\ ScrapeNormalize(ReadCsv(ToCsv(table)), now).ok
            /\ ToCsv(ScrapeNormalize(ReadCsv(ToCsv(table)), now).rows).rows = table

\* a response whose row took its door time from a 'Doors:' fragment and its
\* date from the day of the request
C3_Witness ==
    /\ pc = "done" /\ op = "scrape" /\ outcome = "ok"
    /\ Len(events) = 1 /\ Len(table) = 1
    /\ events[1].EventStartTime = TFrag("none", 0, Frag(7, 0, "pm"), Frag(8, 0, "pm"))
    /\ events[1].EventDoorTime = TGarbage
    /\ today = MaxDay + 1
    /\ table[1].EventStartTime = TCanon(today, 8, 0, "PM")
    /\ table[1].EventDoorTime = TCanon(today, 7, 0, "PM")

\* C4: in every table the derivation returns, a row whose start time parses
\* has an end time exactly three hours after its start time, whatever door
\* time, 'Doors:' fragment or end time the record arrived with.
C4_EndIsStartPlus3 ==
    Derived =>
        /\ Len(table) = Len(DerivationInput)
        /\ \A k \in 1..Len(table) :
              IsDT(StartOf(DerivationInput[k], today)) =>
                 /\ Denotes(table[k].EventStartTime) = StartOf(DerivationInput[k], today)
                 /\ IsDT(Denotes(table[k].EventEndTime))
                 /\ Minutes(Denotes(table[k].EventEndTime))
                       = Minutes(StartOf(DerivationInput[k], today)) + 3 * 60

\* a record that arrived with a door time, a 'Doors:' fragment and an end
\* time of 22:00 has been given an end time three hours after its start
C4_Witness ==
    /\ Derived
    /\ \E k \in 1..Len(table) :
          /\ DerivationInput[k].EventStartTime
                = TFrag("num", 1, Frag(7, 0, "pm"), Frag(8, 0, "pm"))
          /\ DerivationInput[k].EventDoorTime = TNumDT(1, 6, 15, "PM")
          /\ DerivationInput[k].EventEndTime = TIso(1, 22, 0)
          /\ table[k].EventStartTime = TCanon(1, 8, 0, "PM")
          /\ table[k].EventEndTime = TCanon(1, 11, 0, "PM")

\* the door field of a record as a timestamp, Null when blank or unparseable
ExplicitDoor(row) ==
    IF row.EventDoorTime.k \in {"empty", "nan", "blank"} THEN Null
    ELSE ParseDatetime(row.EventDoorTime, today)

C6_DoorsShowExtraction ==
    Derived =>
        \A k \in 1..Len(table) :
            LET row == DerivationInput[k]
            IN  (/\ row.EventStartTime.k \in {"fragname", "fragnum"}
                 /\ row.EventStartTime.doors = Frag(7, 0, "pm")
                 /\ row.EventStartTime.show = Frag(8, 0, "pm")
                 /\ ~IsDT(ExplicitDoor(row)))
                => /\ table[k].EventStartTime = TCanon(row.EventStartTime.d, 8, 0, "PM")
                   /\ table[k].EventDoorTime = TCanon(row.EventStartTime.d, 7, 0, "PM")

\* C7: the time derivation never raises, whatever the start text holds.
C7_NeverRaises ==
    (pc = "done" /\ op \in {"scrape", "calculate"}) => outcome # "raised"

\* C8: the derivation step returns as many rows as it was given, in the same
\* order; every field other than the three time fields is as it was; a row
\* whose start time is empty or does not parse keeps its three time fields;
\* and the step leaves the table it was given as it was.
C8_Frame ==
    /\ [](Derived /\ op = "calculate" =>
            /\ Len(table) = Len(events)
            /\ \A k \in 1..Len(table) :
                  /\ \A col \in COLUMNS \ TimeColumns :
                        table[k][col] = Fill(events)[k][col]
                  /\ ~IsDT(StartOf(Fill(events)[k], today)) =>
                        \A col \in TimeColumns :
                           table[k][col] = Fill(events)[k][col])
    /\ [][op' = "calculate" => events' = events]_vars

\* the step returned a row whose start text is not a date with the door and
\* end values it arrived with
C8_Witness ==
    /\ Derived /\ op = "calculate"
    /\ Len(table) = 1
    /\ events[1].EventStartTime = TGarbage
    /\ events[1].EventDoorTime = TNumDT(1, 6, 15, "PM")
    /\ table[1].EventStartTime = TGarbage
    /\ table[1].EventDoorTime = TNumDT(1, 6, 15, "PM")
    /\ table[1].EventEndTime = TIso(1, 22, 0)
    /\ table[1].DescriptionText = "text"

\* the structured stage of the request ran to its end without an exception
StructuredDone == "structured" \in Range(invoked) /\ ExtractStructured(page).ok

\* the position of the first invocation of a stage, 0 if it was not invoked
FirstCall(stage) ==
    IF stage \in Range(invoked)
    THEN CHOOSE i \in 1..Len(invoked) :
            invoked[i] = stage /\ \A j \in 1..(i - 1) : invoked[j] # stage
    ELSE 0

\* C9: on a request that has passed its extraction stages, the structured
\* stage ran first, the heuristic extractor ran if and only if the structured
\* stage found no record, and the oracle was consulted only after both.
C9_FallbackChain ==
    (pc \in {"extracted", "done"} /\ StructuredDone) =>
        /\ invoked[1] = "structured"
        /\ ("heuristic" \in Range(invoked)) <=> (StructuredEvents(page) = <<>>)
        /\ ("oracle" \in Range(invoked)) =>
              /\ StructuredEvents(page) = <<>>
              /\ "heuristic" \in Range(invoked)
              /\ FirstCall("heuristic") < FirstCall("oracle")

\* C10: when the structured stage has found at least one Event block, no
\* other stage is invoked for the request and every row of the response
\* carries the name, url and description of an Event block of the page.
C10_StructuredPrecedence ==
    (StructuredDone /\ StructuredEvents(page) # <<>>) =>
        /\ invoked = <<"structured">>
        /\ \A row \in Range(response.rows) :
              \E i \in 1..Len(page) :
                 /\ page[i].kind = "event"
                 /\ row.EventName = page[i].name
                 /\ row.VenuePermalink = page[i].url
                 /\ row.DescriptionText = page[i].description

\* a page with an Event block and a block that is not an Event was answered
\* with the Event block's record
C10_Witness ==
    /\ pc = "done"
    /\ response.status = 200
    /\ invoked = <<"structured">>
    /\ Len(page) = 2
    /\ page[1].kind = "other" /\ page[2].kind = "event"
    /\ Len(response.rows) = 1
    /\ response.rows[1].DescriptionText = "ld"
    /\ response.rows[1].EventStartTime = TCanon(1, 8, 0, "PM")

\* the three terminal outcomes of a scrape request
Unreachable == Failure(500, "Could not fetch the page")
ZeroEvents == Failure(404, "No events found")
Crash == Failure(500, "exception")

\* C11: a request that carried its input ends as 'source unreachable' when
\* the fetch failed, as 'zero events found' when the fetch succeeded and no
\* stage produced a record, and as a success otherwise: never as anything
\* else.
C11_ThreeOutcomes ==
    (pc = "done" /\ response # Failure(400, "no input")) =>
        \/ response = Unreachable /\ invoked = <<>>
        \/ response = ZeroEvents /\ invoked # <<>> /\ events = <<>>
        \/ response.status = 200 /\ invoked # <<>> /\ events # <<>>

\* the records of the blocks of a page that are Event objects, in page order
EventRecords(blocks) ==
    LET IsEvent(block) == block.kind = "event"
        kept == SelectSeq(blocks, IsEvent)
    IN  [i \in 1..Len(kept) |->
            [Event(kept[i].name, kept[i].url, kept[i].startDate, TEmpty,
                   kept[i].endDate, kept[i].description)
                EXCEPT !.EventImageURL = kept[i].image,
                       !.DescriptionImage = kept[i].image]]

\* C12: a block that is not valid structured data or not an Event is skipped:
\* the structured stage leaves the records of the page's Event blocks, and a
\* request fails with an exception only when a later stage raised.
C12_BadBlockSkipped ==
    ("structured" \in Range(invoked)) =>
        /\ (invoked = <<"structured">> /\ pc # "done") => events = EventRecords(page)
        /\ response = Crash => outcome = "raised"

\* C13: when the oracle has failed (no key, a failed request, a reply that is
\* not JSON or holds a bad entry) the pipeline sees an empty sequence of
\* records and the request ends as 'zero events found'.
C13_OracleIsolated ==
    ("oracle" \in Range(invoked) /\ reply.kind # "ok") =>
        /\ events = <<>>
        /\ pc = "done"
        /\ response = ZeroEvents

\* the oracle's reply held a named record before its bad entry, and the
\* request ended as 'zero events found'
C13_Witness ==
    /\ pc = "done"
    /\ invoked = <<"structured", "oracle">>
    /\ reply.kind = "baditem"
    /\ \E i \in 1..Len(reply.items) : reply.items[i].name # ""
    /\ response = ZeroEvents

\* C14: in every record an extractor has emitted, and in every row of a
\* response, the image fields are empty or hold an absolute URL.
C14_AbsoluteImages ==
    \A e \in Range(events) \cup Range(response.rows) :
        /\ e.EventImageURL \in {"", AbsoluteImage}
        /\ e.DescriptionImage \in {"", AbsoluteImage}

\* a merge or an append into a file that existed has completed
Merged == Normalised /\ op \in {"append", "merge"} /\ before.exists

\* the permalinks of the valid records of a table
Permalinks(rows) == {row.VenuePermalink : row \in {r \in Range(rows) : ValidRow(r)}}

\* the last valid record of the batch with this permalink
Newest(permalink) == Fill(events)[LastValid(Fill(events), permalink)]

\* the stored row with this permalink
Stored(permalink) ==
    CHOOSE row \in Range(before.rows) : row.VenuePermalink = permalink

\* the row of the written table with this permalink
Kept(permalink) ==
    CHOOSE row \in Range(file.rows) : row.VenuePermalink = permalink

\* C15: after merge_with_existing, or write_events in append mode, on a file
\* that existed, the table holds for every permalink of the batch the newly
\* scraped record, still holds every stored record whose permalink is not in
\* the batch, has one row per permalink, and has the time fields of every
\* row derived by the current rules.
C15_MergeSupersedes ==
    Merged =>
        /\ Permalinks(file.rows) = Permalinks(before.rows) \cup Permalinks(Fill(events))
        /\ \A k, l \in 1..Len(file.rows) :
              k # l => file.rows[k].VenuePermalink # file.rows[l].VenuePermalink
        /\ \A p \in Permalinks(Fill(events)) : Kept(p) = AsWritten(Newest(p))
        /\ \A p \in Permalinks(before.rows) \ Permalinks(Fill(events)) :
              Kept(p) = AsWritten(ReadCsvRow(Stored(p)))
        /\ \A row \in Range(file.rows) : AsWritten(ReadCsvRow(row)) = row

\* a merge replaced the stored row of one permalink by a differing record of
\* the batch and kept the stored row of another permalink
C15_Witness ==
    /\ Merged
    /\ op = "merge"
    /\ \E p \in Permalinks(before.rows) \cap Permalinks(Fill(events)) :
          /\ Stored(p) # AsWritten(Newest(p))
          /\ Kept(p) = AsWritten(Newest(p))
    /\ \E p \in Permalinks(before.rows) \ Permalinks(Fill(events)) :
          Kept(p) = Stored(p)

\* C16: a response carries rows only when the request has finished with
\* every stage completed, and then the whole normalised table; a request in
\* which a stage raised is answered with the generic failure and no rows; and
\* no step of a request creates or changes the persisted table.
C16_AllOrNothing ==
    /\ file = AbsentFile
    /\ response.rows # <<>> =>
          /\ pc = "done" /\ response.status = 200 /\ outcome = "ok"
          /\ ExtractStructured(page).ok
          /\ ScrapeNormalize(events, today).ok
          /\ response.rows = ToCsv(ScrapeNormalize(events, today).rows).rows
    /\ response.status # 200 => response.rows = <<>>
    /\ outcome = "raised" => response = Crash
    /\ (pc = "done" /\ "structured" \in Range(invoked) /\ ~ExtractStructured(page).ok)
          => response = Crash

\* the derivation raised on the second of two records, after the first had
\* been derivable, and the request was answered with the failure alone
C16_Witness ==
    /\ pc = "done"
    /\ outcome = "raised"
    /\ Len(events) = 2
    /\ events[1].VenuePermalink # events[2].VenuePermalink
    /\ events[1].EventName # "" /\ events[1].VenuePermalink # ""
    /\ events[1].EventStartTime = TIso(1, 20, 0)
    /\ events[2].EventStartTime = TFrag("num", 1, NoFrag, Frag(9, 75, "pm"))
    /\ response = Crash
    /\ response.rows = <<>>

\* the hour a time fragment stands for
PolicyHour(f) ==
    CASE f.ap = "" -> IF f.hh < 12 THEN f.hh + 12 ELSE f.hh
      [] f.ap \in {"am", "AM"} -> IF f.hh = 12 THEN 0 ELSE f.hh
      [] f.ap \in {"pm", "PM"} -> IF f.hh = 12 THEN 12 ELSE f.hh + 12

PolicyMinute(f) == IF f.mm = -1 THEN 0 ELSE f.mm

\* C17: a start time taken from a 'Show:' fragment and a door time taken
\* from a 'Doors:' fragment both read the fragment by one rule: without
\* meridiem an hour below 12 is an afternoon hour and an hour from 12 on is
\* taken as written; 12 AM is hour 0, 12 PM is hour 12, h PM is h + 12; a
\* missing minute is 0.
C17_MeridiemPolicy ==
    Derived =>
        \A k \in 1..Len(table) :
            LET text == DerivationInput[k].EventStartTime
                start_dt == Denotes(table[k].EventStartTime)
                door_dt == Denotes(table[k].EventDoorTime)
            IN  (text.k = "fragnum" /\ ~IsDT(ExplicitDoor(DerivationInput[k]))) =>
                   /\ text.show # NoFrag =>
                         /\ start_dt.h = PolicyHour(text.show)
                         /\ start_dt.m = PolicyMinute(text.show)
                   /\ text.doors # NoFrag =>
                         /\ door_dt.h = PolicyHour(text.doors)
                         /\ door_dt.m = PolicyMinute(text.doors)

\* in '11/26/2025 Doors: 7 // Show: 8:00 pm' the door time was read as 19:00
\* and the start time as 20:00
C17_Witness ==
    /\ Derived
    /\ Len(table) = 1
    /\ events[1].EventStartTime = TFrag("num", 1, Frag(7, -1, ""), Frag(8, 0, "pm"))
    /\ table[1].EventStartTime = TCanon(1, 8, 0, "PM")
    /\ table[1].EventDoorTime = TCanon(1, 7, 0, "PM")

\* the renderings the format is to produce
HourText ==
    <<"12", "1", "2", "3", "4", "5", "6", "7", "8", "9", "10", "11",
      "12", "1", "2", "3", "4", "5", "6", "7", "8", "9", "10", "11">>

MinuteText(m) == CASE m = 0 -> "00" [] m = 5 -> "05" [] m = 59 -> "59"

DateText(d) == CASE d = 1 -> "11/26/2025" [] d = 41 -> "01/05/2026"

\* C18: a timestamp is rendered as MM/DD/YYYY H:MM AM|PM EST: the hour in
\* 1..12 without leading zero, 12 AM for hour 0, 12 PM for hour 12, hour - 12
\* PM for the hours 13..23, two digits for the minute, the month and the day,
\* and the suffix EST.
C18_Format ==
    Derived =>
        \A k \in 1..Len(table) :
            LET text == DerivationInput[k].EventStartTime
            IN  text.k = "iso" =>
                   Rendered(table[k].EventStartTime)
                      = DateText(text.d) \o " " \o HourText[text.hr + 1] \o ":"
                           \o MinuteText(text.mn) \o " "
                           \o (IF text.hr < 12 THEN "AM" ELSE "PM") \o " EST"

\* midnight of January 5, 2026, five minutes past, has been rendered
C18_Witness ==
    /\ Derived
    /\ Len(table) = 1
    /\ events[1].EventStartTime = TIso(41, 0, 5)
    /\ Rendered(table[1].EventStartTime) = "01/05/2026 12:05 AM EST"
    /\ Rendered(table[1].EventEndTime) = "01/05/2026 3:05 AM EST"
    /\ Rendered(table[1].EventDoorTime) = "01/04/2026 11:05 PM EST"

\* C19: a merge, or an append, of a batch leaves the same table whether the
\* file was absent or held an empty table: the batch filtered, deduplicated
\* keeping the last record of a permalink, and with its times derived.
C19_AbsentIsEmpty ==
    (Normalised /\ op \in {"append", "merge"} /\ before.rows = <<>>) =>
        /\ file.exists
        /\ ScrapeNormalize(events, today).ok
        /\ file.rows = ToCsv(ScrapeNormalize(events, today).rows).rows

\* a batch with two valid records of one permalink was merged into an
\* existing empty table and left one row
C19_Witness ==
    /\ Normalised
    /\ op = "merge"
    /\ before.exists /\ before.rows = <<>>
    /\ Len(events) = 2
    /\ ValidRow(Fill(events)[1]) /\ ValidRow(Fill(events)[2])
    /\ Fill(events)[1].VenuePermalink = Fill(events)[2].VenuePermalink
    /\ Len(file.rows) = 1

\* the position of a step of a caller in the log, 0 if it has not happened
Position(step, w) ==
    IF <<step, w>> \in Range(log)
    THEN CHOOSE i \in 1..Len(log) : log[i] = <<step, w>>
    ELSE 0

\* a valid record of a caller that has written is missing from the table
Lost(w) ==
    /\ mergers[w].at = "done"
    /\ ~(Permalinks(Fill(mergers[w].batch)) \subseteq Permalinks(file.rows))

\* another caller read the file before w wrote it and wrote it after w did
Overtaken(w) ==
    \E v \in Writers \ {w} :
        /\ Position("read", v) < Position("write", w)
        /\ Position("write", w) < Position("write", v)

\* C20: the table is read and later written whole with nothing held in
\* between: a caller's valid record is missing from the table only if
\* another caller read the file before that record was written and wrote its
\* own table afterwards, so that a caller running alone loses nothing; and
\* the rows the callers found are never lost.
C20_LostUpdate ==
    /\ \A w \in Writers : Lost(w) => Overtaken(w)
    /\ Permalinks(before.rows) \subseteq Permalinks(file.rows)

\* both callers read before either wrote, and the table lacks the record of
\* the caller that wrote first
C20_Witness ==
    /\ log = <<<<"read", 1>>, <<"read", 2>>, <<"write", 1>>, <<"write", 2>>>>
    /\ Lost(1)
    /\ ~Lost(2)
    /\ before.exists

\* a text that, trimmed and in lower case, is a call-to-action phrase
Denylisted(text) == Lower(Strip(text)) \in InvalidNames

\* a text that may serve as an event name
NameCandidate(text) == Len(Strip(text)) > MinNameLength /\ ~Denylisted(text)

\* C21: every record the heuristic extractor emits has an EventName whose
\* trimmed text is longer than 3 characters and is not, in any letter case, a
\* denylisted call-to-action phrase, has Artist equal to EventName, Venue
\* equal to the venue name, Type 'Confirm' and HoldLevel '1'; and a container
\* none of whose name candidates is acceptable yields no record.
C21_HeuristicRecords ==
    op = "heuristic" =>
        /\ Len(log) = Len(events)
        /\ \A i \in 1..Len(events) :
              /\ NameCandidate(events[i].EventName)
              /\ events[i].Artist = events[i].EventName
              /\ events[i].Venue = VenueName
              /\ events[i].Type = "Confirm"
              /\ events[i].HoldLevel = "1"
        /\ \A i \in 1..Len(page) :
              (\A k \in 1..Len(page[i].names) : ~NameCandidate(page[i].names[k]))
                  => i \notin Range(log)

\* a page whose first container has only call-to-action names and yields no
\* record, and whose second yields a record named by its second candidate,
\* the first being a call to action in capitals
C21_Witness ==
    /\ op = "heuristic"
    /\ Len(page) = 2
    /\ page[1].names = <<"Sold Out", " Details ">>
    /\ page[2].names = <<"BUY TICKETS", "Jazz Night">>
    /\ log = <<2>>
    /\ events[1].EventName = "Jazz Night"
    /\ events[1].Artist = "Jazz Night"

\* the element's visible text contains a ticket phrase, in any letter case
TicketText(e) == \E phrase \in ButtonTexts : Contains(Lower(e.text), phrase)

\* the container the i-th record was parsed from
ContainerOf(i) == page[log[i]]

\* the anchors and buttons of a container with a ticket text, in document
\* order
TicketElements(c) == SelectSeq(c.links, TicketText)

\* the ticket elements of one tag that carry a non-empty href
Linked(c, tag) ==
    SelectSeq(c.links, LAMBDA e : e.tag = tag /\ TicketText(e) /\ NotEmpty(e.href))

\* the href resolved against the venue's URL
Resolved(href) == UrlJoin(VenueUrl, href)

\* C22 as stated: the Permalink is taken from the first anchor or button of
\* the container whose text contains a ticket phrase, its href resolved to
\* an absolute URL if it has one; a container without such an element gets
\* an empty Permalink.
C22_FirstTicketElement ==
    op = "heuristic" =>
        \A i \in 1..Len(events) :
            events[i].VenuePermalink =
                IF TicketElements(ContainerOf(i)) = <<>>
                THEN ""
                ELSE IF NotEmpty(Head(TicketElements(ContainerOf(i))).href)
                     THEN Resolved(Head(TicketElements(ContainerOf(i))).href)
                     ELSE ""

\* C22 amended: the Permalink is the resolved href of the first anchor with
\* a ticket text and a non-empty href, else of the first such button, else
\* empty; a resolved Permalink is an absolute URL.
C22_FirstLinkedTicketElement ==
    op = "heuristic" =>
        \A i \in 1..Len(events) :
            /\ events[i].VenuePermalink =
                  IF Linked(ContainerOf(i), "a") # <<>>
                  THEN Resolved(Head(Linked(ContainerOf(i), "a")).href)
                  ELSE IF Linked(ContainerOf(i), "button") # <<>>
                       THEN Resolved(Head(Linked(ContainerOf(i), "button")).href)
                       ELSE ""
            /\ \/ events[i].VenuePermalink = ""
               \/ StartsWith(events[i].VenuePermalink, "https://")

\* a container whose first ticket anchor has no href and whose second has
\* one, and a container whose ticket button precedes its ticket anchor: each
\* gets the href of the later element
C22_Witness ==
    /\ op = "heuristic"
    /\ Len(events) = 2
    /\ \A i \in 1..2 : TicketElements(ContainerOf(i)) # <<>>
    /\ Head(TicketElements(ContainerOf(1))).href = NoneVal
    /\ events[1].VenuePermalink = "https://tix.com/2"
    /\ Head(TicketElements(ContainerOf(2))).tag = "button"
    /\ Head(TicketElements(ContainerOf(2))).href = "/t/5"
    /\ events[2].VenuePermalink = "https://venue.com/t/6"

\* a record with a permalink and no event name
Nameless(row) == row.VenuePermalink \notin {"", NoneVal} /\ row.EventName \in {"", NoneVal}

\* C23: the filter runs before the deduplication, in write_events and in
\* merge_with_existing alike: a valid record that is followed by a nameless
\* record with its permalink, and by no valid one, is in the written table.
C23_FilterBeforeDedup ==
    (Normalised /\ op \in {"write", "append", "merge"}) =>
        \A i, j \in 1..Len(InputRows) :
            (/\ i < j
             /\ ValidRow(InputRows[i])
             /\ Nameless(InputRows[j])
             /\ InputRows[j].VenuePermalink = InputRows[i].VenuePermalink
             /\ LastValid(InputRows, InputRows[i].VenuePermalink) = i)
                => /\ AsWritten(InputRows[i]) \in Range(table)
                   /\ AsWritten(InputRows[i]) \in Range(file.rows)

\* a merge into a stored table whose batch holds a valid record followed by
\* a nameless record with the same permalink; the valid record is written
C23_Witness ==
    /\ Normalised
    /\ op = "merge"
    /\ before.exists
    /\ Len(events) = 2
    /\ ValidRow(Fill(events)[1])
    /\ Nameless(Fill(events)[2])
    /\ events[1].VenuePermalink = events[2].VenuePermalink
    /\ \A row \in Range(before.rows) : row.VenuePermalink # events[1].VenuePermalink
    /\ AsWritten(Fill(events)[1]) \in Range(file.rows)

\* C24: a success response carries at least one event row; a request whose
\* records are all filtered out ends as 'zero events found'.
C24_SuccessHasRows ==
    pc = "done" =>
        /\ response.status = 200 => Len(response.rows) >= 1
        /\ (events # <<>> /\ FilterValid(Fill(events)) = <<>>) => response = ZeroEvents

\* C25: after merge_with_existing or write_events(append=True), whether or
\* not reading and re-deriving the stored table succeeded, every valid record
\* that was stored before the call and whose permalink is not in the batch
\* is still in the table.
C25_MergeKeepsStored ==
    (pc = "done" /\ op \in {"append", "merge"}) =>
        \A p \in Permalinks(before.rows) \ Permalinks(Fill(events)) :
            /\ p \in Permalinks(file.rows)
            /\ Kept(p).EventName = Stored(p).EventName

\* C26: in every table the derivation returns, a row whose start time
\* parsed has door time <= start time < end time, whether the door time came
\* from the explicit door field, from a 'Doors:' fragment or from the default
\* of one hour before the start.
C26_DoorStartEndOrder ==
    Derived =>
        \A k \in 1..Len(table) :
            IsDT(StartOf(DerivationInput[k], today)) =>
                /\ IsDT(Denotes(table[k].EventStartTime))
                /\ IsDT(Denotes(table[k].EventDoorTime))
                /\ IsDT(Denotes(table[k].EventEndTime))
                /\ Minutes(Denotes(table[k].EventDoorTime))
                      <= Minutes(Denotes(table[k].EventStartTime))
                /\ Minutes(Denotes(table[k].EventStartTime))
                      < Minutes(Denotes(table[k].EventEndTime))

\* C27: write_events and merge_with_existing called with an empty batch end
\* without raising and leave the persisted table as it was.
C27_EmptyBatchNoOp ==
    (pc = "done" /\ op \in {"write", "append", "merge"} /\ events = <<>>) =>
        /\ outcome # "raised"
        /\ file = before

====
